---- MODULE Spec2Model ----
(***************************************************************************)
(* Revenue Project Copilot: the scoring / charter pipeline.                *)
(*   backend/scoring.py  _call_ollama, score_project_ai,                   *)
(*                       generate_project_charter_ai                       *)
(*   backend/main.py     /ai/score_project, /ai/project_charter            *)
(*   frontend/app.py     the Streamlit dashboard talking to the backend    *)
(*   app.py              the standalone Streamlit dashboard (OpenAI)       *)
(***************************************************************************)
EXTENDS Integers, Sequences, FiniteSets, TLC

(***************************************************************************)
(* JSON / Python values.  Every value is a record [t, n, s]: t the Python  *)
(* type, n the number it holds (a float holds tenths), s its characters.   *)
(***************************************************************************)
Absent == [t |-> "absent", n |-> 0, s |-> <<>>]
Null == [t |-> "null", n |-> 0, s |-> <<>>]
IntV(k) == [t |-> "int", n |-> k, s |-> <<>>]
BoolV(b) == [t |-> "bool", n |-> IF b THEN 1 ELSE 0, s |-> <<>>]
FloatV(tenths) == [t |-> "float", n |-> tenths, s |-> <<>>]
NaNV == [t |-> "nan", n |-> 0, s |-> <<>>]
StrV(chars) == [t |-> "str", n |-> 0, s |-> chars]
ListV(items) == [t |-> "list", n |-> 0, s |-> items]
DictV == [t |-> "dict", n |-> 0, s |-> <<>>]

Digits == {"0", "1", "2", "3", "4", "5", "6", "7", "8", "9"}
Whitespace == {" ", "\t", "\n"}

DigitVal(c) ==
    CASE c = "0" -> 0 [] c = "1" -> 1 [] c = "2" -> 2 [] c = "3" -> 3
      [] c = "4" -> 4 [] c = "5" -> 5 [] c = "6" -> 6 [] c = "7" -> 7
      [] c = "8" -> 8 [] c = "9" -> 9

RECURSIVE LStrip(_)
LStrip(cs) ==
    IF cs /= <<>> /\ Head(cs) \in Whitespace THEN LStrip(Tail(cs)) ELSE cs

RECURSIVE RStrip(_)
RStrip(cs) ==
    IF cs /= <<>> /\ cs[Len(cs)] \in Whitespace
    THEN RStrip(SubSeq(cs, 1, Len(cs) - 1))
    ELSE cs

\* Python's integer literal after the sign: digits, single underscores
\* allowed between two digits only.
IsIntBody(cs) ==
    /\ cs /= <<>>
    /\ \A i \in 1..Len(cs) :
          \/ cs[i] \in Digits
          \/ /\ cs[i] = "_"
             /\ i > 1 /\ i < Len(cs)
             /\ cs[i - 1] \in Digits /\ cs[i + 1] \in Digits

RECURSIVE DigitsValue(_, _)
DigitsValue(cs, acc) ==
    IF cs = <<>> THEN acc
    ELSE IF Head(cs) = "_" THEN DigitsValue(Tail(cs), acc)
    ELSE DigitsValue(Tail(cs), 10 * acc + DigitVal(Head(cs)))

\* int(str): strip, optional sign, integer body; anything else ValueError.
ParseIntText(chars) ==
    LET st == RStrip(LStrip(chars))
        signed == st /= <<>> /\ Head(st) \in {"+", "-"}
        body == IF signed THEN Tail(st) ELSE st
    IN  IF IsIntBody(body)
        THEN [ok |-> TRUE,
              n |-> IF signed /\ Head(st) = "-"
                    THEN 0 - DigitsValue(body, 0)
                    ELSE DigitsValue(body, 0)]
        ELSE [ok |-> FALSE, n |-> 0]

\* Python's int(x): [ok, n]; ok = FALSE when int(x) raises.
PyInt(x) ==
    CASE x.t = "int" -> [ok |-> TRUE, n |-> x.n]
      [] x.t = "bool" -> [ok |-> TRUE, n |-> x.n]
      [] x.t = "float" ->
            [ok |-> TRUE,
             n |-> IF x.n >= 0 THEN x.n \div 10 ELSE 0 - ((0 - x.n) \div 10)]
      [] x.t = "str" -> ParseIntText(x.s)
      [] OTHER -> [ok |-> FALSE, n |-> 0]

\* score_project_ai.to_int(x, default=0)
\* faulty variant: the fallback is 1 instead of 0
to_int_keep_default(x) == LET r == PyInt(x) IN IF r.ok THEN r.n ELSE 1
to_int(x) == LET r == PyInt(x) IN IF r.ok THEN r.n ELSE 0

(***************************************************************************)
(* The decoded response mapping: a function from the nine keys to values,  *)
(* Absent standing for a key the mapping does not have.                    *)
(***************************************************************************)
SubScores == {"bi", "risk", "align", "urgency", "complexity", "cost"}
Keys == SubScores \cup {"rationale", "lenses", "recommended_priority"}

\* dict.get(key, default)
Get(raw, key, default) == IF raw[key] = Absent THEN default ELSE raw[key]

\* priority = BI + Risk + Align + Urgency + (6 - Complexity) + (6 - Cost)
\* faulty variant: sub-scores clamped to 1..5 before the sum
PriorityClamped(bi, risk, align, urgency, complexity, cost) ==
    LET c(x) == IF x < 1 THEN 1 ELSE IF x > 5 THEN 5 ELSE x
    IN  c(bi) + c(risk) + c(align) + c(urgency) + (6 - c(complexity)) + (6 - c(cost))
Priority(bi, risk, align, urgency, complexity, cost) ==
    bi + risk + align + urgency + (6 - complexity) + (6 - cost)

\* The tail of score_project_ai: the ScoreResult built from the mapping.
\* faulty variant: recommended_priority forced into 1..5
ScoreFromRawBounded(raw) ==
    LET bi == to_int(Get(raw, "bi", IntV(0)))
        risk == to_int(Get(raw, "risk", IntV(0)))
        align == to_int(Get(raw, "align", IntV(0)))
        urgency == to_int(Get(raw, "urgency", IntV(0)))
        complexity == to_int(Get(raw, "complexity", IntV(0)))
        cost == to_int(Get(raw, "cost", IntV(0)))
        rp == Get(raw, "recommended_priority", IntV(1))
    IN  [bi |-> bi, risk |-> risk, align |-> align, urgency |-> urgency,
         complexity |-> complexity, cost |-> cost,
         priority_score |-> Priority(bi, risk, align, urgency, complexity, cost),
         rationale |-> Get(raw, "rationale", StrV(<<>>)),
         lenses |-> Get(raw, "lenses", ListV(<<>>)),
         recommended_priority |->
             IF rp.t = "int" /\ rp.n > 5 THEN IntV(5)
             ELSE IF rp.t = "int" /\ rp.n < 1 THEN IntV(1)
             ELSE rp]
ScoreFromRaw(raw) ==
    LET bi == to_int(Get(raw, "bi", IntV(0)))
        risk == to_int(Get(raw, "risk", IntV(0)))
        align == to_int(Get(raw, "align", IntV(0)))
        urgency == to_int(Get(raw, "urgency", IntV(0)))
        complexity == to_int(Get(raw, "complexity", IntV(0)))
        cost == to_int(Get(raw, "cost", IntV(0)))
    IN  [bi |-> bi, risk |-> risk, align |-> align, urgency |-> urgency,
         complexity |-> complexity, cost |-> cost,
         priority_score |-> Priority(bi, risk, align, urgency, complexity, cost),
         rationale |-> Get(raw, "rationale", StrV(<<>>)),
         lenses |-> Get(raw, "lenses", ListV(<<>>)),
         recommended_priority |-> Get(raw, "recommended_priority", IntV(1))]

(***************************************************************************)
(* The provider's answer to one POST {OLLAMA_URL}/api/chat:                *)
(*   [net, status, body]   net  "ok" | "ConnectionError" | "Timeout"       *)
(*   body  [b |-> "none"] | [b |-> "not_json"] | [b |-> "json", data]      *)
(*   data  [d |-> "not_dict"] | [d |-> "dict", message]                    *)
(*   message [m |-> "absent"] | [m |-> "not_dict"] | [m |-> "dict", content]*)
(*   content [c |-> "absent"] | [c |-> "dict", map] | [c |-> "str", text]  *)
(*           | [c |-> "other", repr]     (null, a list, a number)          *)
(*   text  [form |-> "plain", str]   text that is not JSON                 *)
(*         [form |-> "json", val]    the JSON serialisation of val         *)
(*         [form |-> "repr", of]     Python's str() of a non-text content  *)
(*   val   [j |-> "object", map] | [j |-> "other"]                         *)
(***************************************************************************)
OLLAMA_URL == "http://localhost:11434"

Plain(str) == [form |-> "plain", str |-> str]
JsonObject(raw) == [form |-> "json", val |-> [j |-> "object", map |-> raw]]
JsonOther == [form |-> "json", val |-> [j |-> "other"]]
EmptyText == Plain("")

NoBody == [b |-> "none"]
NetFailure(kind) == [net |-> kind, status |-> 0, body |-> NoBody]
HttpReply(status, body) == [net |-> "ok", status |-> status, body |-> body]
DataBody(data) == [b |-> "json", data |-> data]
MessageData(message) == DataBody([d |-> "dict", message |-> message])
ContentReply(content) ==
    HttpReply(200, MessageData([m |-> "dict", content |-> content]))
DictContent(raw) == [c |-> "dict", map |-> raw]
StrContent(text) == [c |-> "str", text |-> text]
OtherContent(repr) == [c |-> "other", repr |-> repr]

\* requests' Response.raise_for_status(): raises HTTPError for 4xx and 5xx.
RaisesForStatus(status) == status >= 400 /\ status < 600

RuntimeError(cause) ==
    [exc |-> "RuntimeError", endpoint |-> OLLAMA_URL, cause |-> cause]
Raise(exc) == [kind |-> "error", error |-> [exc |-> exc]]

\* _call_ollama: one POST; any requests.RequestException inside the try
\* becomes RuntimeError; resp.json() is outside the try.
\* [kind, data | error, sent]: sent is the number of POSTs issued.
\* faulty variant: a failed POST is sent a second time
CallOllamaRetrying(reply) ==
    IF reply.net /= "ok"
    THEN [kind |-> "error", sent |-> 2,
          error |-> RuntimeError([exc |-> reply.net, status |-> 0])]
    ELSE IF RaisesForStatus(reply.status)
    THEN [kind |-> "error", sent |-> 2,
          error |-> RuntimeError([exc |-> "HTTPError", status |-> reply.status])]
    ELSE IF reply.body.b /= "json"
    THEN [kind |-> "error", sent |-> 1, error |-> [exc |-> "JSONDecodeError"]]
    ELSE [kind |-> "ok", sent |-> 1, data |-> reply.body.data]
\* faulty variant: raise_for_status() left out
CallOllamaNoStatusCheck(reply) ==
    IF reply.net /= "ok"
    THEN [kind |-> "error", sent |-> 1,
          error |-> RuntimeError([exc |-> reply.net, status |-> 0])]
    ELSE IF reply.body.b /= "json"
    THEN [kind |-> "error", sent |-> 1, error |-> [exc |-> "JSONDecodeError"]]
    ELSE [kind |-> "ok", sent |-> 1, data |-> reply.body.data]
_call_ollama(reply) ==
    IF reply.net /= "ok"
    THEN [kind |-> "error", sent |-> 1,
          error |-> RuntimeError([exc |-> reply.net, status |-> 0])]
    ELSE IF RaisesForStatus(reply.status)
    THEN [kind |-> "error", sent |-> 1,
          error |-> RuntimeError([exc |-> "HTTPError", status |-> reply.status])]
    ELSE IF reply.body.b /= "json"
    THEN [kind |-> "error", sent |-> 1, error |-> [exc |-> "JSONDecodeError"]]
    ELSE [kind |-> "ok", sent |-> 1, data |-> reply.body.data]

\* data.get("message", {}).get("content", ""):
\* [kind |-> "ok", content] or the AttributeError of a .get on a non-dict.
MessageContent(data) ==
    IF data.d /= "dict" THEN Raise("AttributeError")
    ELSE IF data.message.m = "absent"
    THEN [kind |-> "ok", content |-> StrContent(EmptyText)]
    ELSE IF data.message.m /= "dict" THEN Raise("AttributeError")
    ELSE IF data.message.content.c = "absent"
    THEN [kind |-> "ok", content |-> StrContent(EmptyText)]
    ELSE [kind |-> "ok", content |-> data.message.content]

\* json.loads(content): the value a JSON text serialises, JSONDecodeError
\* for any other text, TypeError for a content that is not text.
JsonLoads(content) ==
    IF content.c /= "str" THEN Raise("TypeError")
    ELSE IF content.text.form /= "json" THEN Raise("JSONDecodeError")
    ELSE [kind |-> "ok", val |-> content.text.val]

\* score_project_ai lines 93-97 and the first raw.get: the mapping the
\* sub-scores are read from, or the exception raised on the way.
\* faulty variant: a content that is no mapping read as an empty mapping
DecodeRawDefaulting(content) ==
    IF content.c = "dict" THEN [kind |-> "ok", raw |-> content.map]
    ELSE LET v == JsonLoads(content)
         IN  IF v.kind = "error" \/ v.val.j /= "object"
             THEN [kind |-> "ok", raw |-> [k \in Keys |-> Absent]]
             ELSE [kind |-> "ok", raw |-> v.val.map]
DecodeRaw(content) ==
    IF content.c = "dict" THEN [kind |-> "ok", raw |-> content.map]
    ELSE LET v == JsonLoads(content)
         IN  IF v.kind = "error" THEN v
             ELSE IF v.val.j /= "object" THEN Raise("AttributeError")
             ELSE [kind |-> "ok", raw |-> v.val.map]

\* score_project_ai(description, systems), the provider answering `reply`.
score_project_ai(reply) ==
    LET called == _call_ollama(reply)
    IN  IF called.kind = "error"
        THEN [kind |-> "error", error |-> called.error, sent |-> called.sent]
        ELSE LET mc == MessageContent(called.data)
             IN  IF mc.kind = "error"
                 THEN [kind |-> "error", error |-> mc.error, sent |-> called.sent]
                 ELSE LET dec == DecodeRaw(mc.content)
                      IN  IF dec.kind = "error"
                          THEN [kind |-> "error", error |-> dec.error,
                                sent |-> called.sent]
                          ELSE [kind |-> "result", sent |-> called.sent,
                                result |-> ScoreFromRaw(dec.raw)]

\* generate_project_charter_ai lines 212-215: text is returned as it is,
\* anything else through str().
\* faulty variant: str() replaced by repr(), applied to text as well
CharterTextRepr(content) ==
    IF content.c = "str" THEN [form |-> "repr", of |-> content.text]
    ELSE [form |-> "repr", of |-> content]
CharterText(content) ==
    IF content.c = "str" THEN content.text
    ELSE [form |-> "repr", of |-> content]

\* generate_project_charter_ai(...), the provider answering `reply`.
generate_project_charter_ai(reply) ==
    LET called == _call_ollama(reply)
    IN  IF called.kind = "error"
        THEN [kind |-> "error", error |-> called.error, sent |-> called.sent]
        ELSE LET mc == MessageContent(called.data)
             IN  IF mc.kind = "error"
                 THEN [kind |-> "error", error |-> mc.error, sent |-> called.sent]
                 ELSE [kind |-> "result", sent |-> called.sent,
                       charter |-> CharterText(mc.content)]

(***************************************************************************)
(* backend/main.py: the two endpoints.  An HTTP answer is                  *)
(* [status |-> 200, body] or [status |-> 500] (an exception in a handler). *)
(***************************************************************************)
\* ScoreResponse(**result): rationale: str, lenses: List[str] (a ListV
\* holds text items only), recommended_priority: int (an integer, a whole
\* float or integer text; the six sub-scores and priority_score are
\* integers already).
IntField(v) ==
    CASE v.t \in {"int", "bool"} -> [ok |-> TRUE, n |-> v.n]
      [] v.t = "float" -> [ok |-> v.n % 10 = 0, n |-> v.n \div 10]
      [] v.t = "str" -> ParseIntText(v.s)
      [] OTHER -> [ok |-> FALSE, n |-> 0]

ScoreResponse(result) ==
    LET rp == IntField(result.recommended_priority)
    IN  IF result.rationale.t = "str" /\ result.lenses.t = "list" /\ rp.ok
        THEN [ok |-> TRUE,
              body |-> [result EXCEPT !.recommended_priority = IntV(rp.n)]]
        ELSE [ok |-> FALSE]

\* POST /ai/score_project: [status, body, core, sent], core the outcome of
\* score_project_ai.
ai_score_project(reply) ==
    LET core == score_project_ai(reply)
        checked == ScoreResponse(core.result)
    IN  IF core.kind = "error"
        THEN [status |-> 500, core |-> core]
        ELSE IF ~checked.ok
        THEN [status |-> 500, core |-> core]
        ELSE [status |-> 200, core |-> core, body |-> checked.body]

\* a handler that answers before score_project_ai is called
NoCall == [kind |-> "none", sent |-> 0]

\* POST /ai/score_project_by_id: 500 when projects.csv is missing, 404 when
\* no row has the id, else the row's text (or the overrides) scored as by
\* /ai/score_project.  `table` is the content of projects.csv.
ai_score_project_by_id(csv_exists, table, project_id, reply) ==
    IF ~csv_exists THEN [status |-> 500, core |-> NoCall]
    ELSE IF project_id \notin DOMAIN table THEN [status |-> 404, core |-> NoCall]
    ELSE ai_score_project(reply)

\* POST /ai/project_charter: CharterResponse(charter_markdown=charter).
ai_project_charter(reply) ==
    LET core == generate_project_charter_ai(reply)
    IN  IF core.kind = "error"
        THEN [status |-> 500, core |-> core]
        ELSE [status |-> 200, core |-> core,
              body |-> [charter_markdown |-> core.charter]]

(***************************************************************************)
(* app.py, the standalone dashboard: json.loads of the completion's        *)
(* content, int() on each sub-score with no fallback, the priority         *)
(* computed in the page.  An answer of the OpenAI client is                *)
(* [api |-> "error"] or [api |-> "ok", content].                           *)
(***************************************************************************)
\* Python truth value of a JSON value.
Truthy(v) ==
    CASE v.t \in {"null", "absent"} -> FALSE
      [] v.t \in {"int", "bool", "float"} -> v.n /= 0
      [] v.t \in {"str", "list"} -> v.s /= <<>>
      [] OTHER -> TRUE

\* lines 223-230
ai_priority(ai_bi, ai_risk, ai_align, ai_urgency, ai_cmplx, ai_cost) ==
    ai_bi + ai_risk + ai_align + ai_urgency + (6 - ai_cmplx) + (6 - ai_cost)

\* lines 209-253: what the right column shows for a completion.
StandaloneSuggestion(answer) ==
    IF answer.api /= "ok" THEN [kind |-> "score_error", exc |-> "APIError"]
    ELSE LET v == JsonLoads(answer.content)
         IN  IF v.kind = "error"
             THEN [kind |-> "score_error", exc |-> v.error.exc]
             ELSE IF v.val.j /= "object"
             THEN [kind |-> "score_error", exc |-> "AttributeError"]
             ELSE LET raw == v.val.map
                      sub(k) == PyInt(Get(raw, k, IntV(0)))
                      lenses == Get(raw, "lenses", ListV(<<>>))
                  IN  IF \E k \in SubScores : ~sub(k).ok
                      THEN [kind |-> "score_error", exc |-> "ValueError"]
                      ELSE [kind |-> "suggestion",
                            bi |-> sub("bi").n, risk |-> sub("risk").n,
                            align |-> sub("align").n,
                            urgency |-> sub("urgency").n,
                            complexity |-> sub("complexity").n,
                            cost |-> sub("cost").n,
                            priority_score |->
                                ai_priority(sub("bi").n, sub("risk").n,
                                            sub("align").n, sub("urgency").n,
                                            sub("complexity").n, sub("cost").n),
                            rationale |-> Get(raw, "rationale", StrV(<<>>)),
                            lenses |-> lenses,
                            \* ", ".join(lenses) of a truthy non-iterable
                            join_error |-> Truthy(lenses)
                                           /\ lenses.t \notin {"list", "str", "dict"}]

(***************************************************************************)
(* Bounds and the inputs drawn from them.                                  *)
(***************************************************************************)
NumProjects == 2
MaxCalls == 2
MaxScore == 7

Projects == 1..NumProjects
NoProject == 0

Chr(str) == <<str>>
\* integers a model may give a sub-score: negative, zero, above 5
ScoreInts == {0 - MaxScore, 0, MaxScore}
\* whatever a JSON mapping may hold under a sub-score key, or not hold
OddValues ==
    {IntV(k) : k \in 1..5}
    \cup
    {Absent, Null, DictV, NaNV, BoolV(TRUE), BoolV(FALSE),
     FloatV(29), FloatV(-29), ListV(<<"3">>),
     StrV(<<"4">>), StrV(<<" ", "-", "2", "\n">>), StrV(<<"+", "1", "_", "0">>),
     StrV(<<"4", ".", "5">>), StrV(<<"h", "i", "g", "h">>), StrV(<<>>),
     StrV(<<"_", "1">>)}
RationaleValues ==
    {Absent, StrV(<<"w", "h", "y">>), StrV(<<>>), Null, IntV(3), ListV(<<"a">>), DictV}
LensesValues ==
    {Absent, ListV(<<>>), ListV(<<"Audit", "Revenue">>), StrV(<<"Audit">>),
     Null, IntV(2), DictV}
PriorityValues ==
    {Absent, IntV(1), IntV(0), IntV(0 - MaxScore), IntV(10 * MaxScore),
     StrV(<<"2">>), StrV(<<"h", "i", "g", "h">>), Null}

Uniform(k, rationale, lenses, priority) ==
    [key \in Keys |->
        CASE key \in SubScores -> IntV(k)
          [] key = "rationale" -> rationale
          [] key = "lenses" -> lenses
          [] key = "recommended_priority" -> priority]
\* {bi:5, risk:5, align:5, urgency:5, complexity:1, cost:1} and the rest
WellFormed ==
    [Uniform(5, StrV(<<"w", "h", "y">>), ListV(<<"Audit", "Revenue">>), IntV(2))
        EXCEPT !["complexity"] = IntV(1), !["cost"] = IntV(1)]
\* {bi:1, risk:1, align:1, urgency:1, complexity:1}, nothing else
OnesNoCost ==
    [Uniform(1, Absent, Absent, Absent) EXCEPT !["cost"] = Absent]

\* every assignment of integers to the six sub-scores
IntegerMaps ==
    {[key \in Keys |-> IF key \in SubScores THEN IntV(f[key]) ELSE WellFormed[key]] :
        f \in [SubScores -> ScoreInts]}
\* one sub-score of a base mapping replaced by any value
OneOffMaps ==
    {[base EXCEPT ![k] = v] :
        base \in {WellFormed, OnesNoCost}, k \in SubScores, v \in OddValues}
\* every combination of the three other fields
MetaMaps ==
    {Uniform(3, r, l, p) :
        r \in RationaleValues, l \in LensesValues, p \in PriorityValues}
RawMaps == IntegerMaps \cup OneOffMaps \cup MetaMaps \cup {WellFormed, OnesNoCost}

FailedReplies ==
    {NetFailure("ConnectionError"), NetFailure("Timeout"),
     HttpReply(500, NoBody), HttpReply(404, DataBody([d |-> "not_dict"])),
     HttpReply(200, [b |-> "not_json"]), HttpReply(304, [b |-> "not_json"])}
\* answers with a body that stops short of a content
ShortReplies ==
    {HttpReply(200, DataBody([d |-> "not_dict"])),
     HttpReply(200, MessageData([m |-> "absent"])),
     HttpReply(200, MessageData([m |-> "not_dict"])),
     ContentReply([c |-> "absent"])}
\* contents that are no mapping
Undecodable ==
    {StrContent(Plain("The project looks important.")), StrContent(EmptyText),
     StrContent(JsonOther), OtherContent("None"), OtherContent("[1, 2]")}

\* the provider's answers to a scoring request, all of them
AllScoreReplies ==
    FailedReplies \cup ShortReplies
    \cup {ContentReply(c) : c \in Undecodable}
    \cup {ContentReply(DictContent(raw)) : raw \in RawMaps}
    \cup {ContentReply(StrContent(JsonObject(raw))) : raw \in RawMaps}
    \cup {HttpReply(304, MessageData([m |-> "dict", content |-> DictContent(WellFormed)]))}
\* the OpenAI client's answers
AllCompletions ==
    {[api |-> "error"]}
    \cup {[api |-> "ok", content |-> c] : c \in Undecodable}
    \cup {[api |-> "ok", content |-> StrContent(JsonObject(raw))] : raw \in RawMaps}

\* a few of them, for the dashboard session
SessionScoreReplies ==
    FailedReplies
    \cup {ContentReply(DictContent(WellFormed)),
          ContentReply(StrContent(JsonObject(OnesNoCost))),
          ContentReply(StrContent(JsonObject(Uniform(3, Null, StrV(<<"Audit">>), IntV(1))))),
          ContentReply(StrContent(Plain("The project looks important.")))}
\* fewer still, for the client that scores a project by its id
ByIdReplies ==
    {NetFailure("Timeout"),
     ContentReply(StrContent(JsonObject(OnesNoCost))),
     ContentReply(StrContent(Plain("The project looks important.")))}
\* a few answers of the OpenAI client
SessionCompletions ==
    {[api |-> "error"],
     [api |-> "ok", content |-> StrContent(JsonObject(WellFormed))],
     [api |-> "ok", content |-> StrContent(Plain("The project looks important."))]}
CharterTexts == {Plain("# Project Charter - A"), Plain(" # B\n"), EmptyText}
CharterReplies ==
    FailedReplies \cup ShortReplies
    \cup {ContentReply(StrContent(t)) : t \in CharterTexts}
    \cup {ContentReply(OtherContent("None")), ContentReply(DictContent(WellFormed))}

(***************************************************************************)
(* frontend/app.py: one Streamlit session.  Every interaction reruns the   *)
(* script: the left column is drawn from the session state as it is at     *)
(* that moment, then the pressed button's handler runs.                    *)
(***************************************************************************)
VARIABLES
    selected,            \* id of the selected project, NoProject when the filters match none
    charter_text,        \* st.session_state["charter_text"]
    charter_project_id,  \* st.session_state["charter_project_id"], NoProject for None
    left,                \* the charter area of the left column
    right,               \* what the pressed button drew in the right column
    solo,                \* the right column of the standalone dashboard
    calls,               \* calls of score_project_ai / generate_project_charter_ai
    requests,            \* POSTs sent to the provider
    last,                \* the last such call: [op, reply, http]
    generated,           \* history: <<project, text>> for every charter the backend returned
    projects,            \* projects.csv: the stored scores of every project
    OPENAI_API_KEY,      \* app.py: os.getenv("OPENAI_API_KEY"), read once at start
    openai_calls,        \* chat completions the standalone dashboard asked for
    completion           \* the last answer of the OpenAI client

vars == <<selected, charter_text, charter_project_id, left, right, solo,
          calls, requests, last, generated, projects,
          OPENAI_API_KEY, openai_calls, completion>>

\* the three variables of the standalone dashboard
standalone == <<solo, openai_calls, completion>>

\* os.getenv's None, and a key
NoKey == "None"
KeyValues == {NoKey, "sk-key"}

\* button presses made so far, on any page or client
Interactions == calls + openai_calls

\* projects.csv as shipped: human-set scores, priority_score their formula
ProjectTable ==
    [p \in Projects |->
        [bi |-> 4, risk |-> 2, align |-> 3, urgency |-> 2, complexity |-> 3,
         cost |-> 2, priority_score |-> 18]]

\* What a scoring request for `project`, answered by the provider with
\* `reply`, leaves in projects.csv: the backend only reads the file and
\* the dashboards only display the suggestion.
\* faulty variant: the suggestion is written into the project's row
TableWithSuggestion(table, project, reply) ==
    LET http == ai_score_project(reply)
    IN  IF http.status = 200 /\ project \in DOMAIN table
        THEN [table EXCEPT ![project] =
                [k \in DOMAIN table[project] |-> http.body[k]]]
        ELSE table
TableAfterScoring(table, project, reply) == table

Idle == [kind |-> "idle"]

\* a text's truth value: only the empty text is falsy
NonEmpty(text) == text /= EmptyText

\* lines 176-190
\* faulty variant: the owner is not compared with the selected project
CharterAreaAnyProject(project, text, owner) ==
    IF project = NoProject THEN [area |-> "none"]
    ELSE IF NonEmpty(text)
    THEN [area |-> "charter", project |-> project, text |-> text]
    ELSE [area |-> "info", project |-> project]
CharterArea(project, text, owner) ==
    IF project = NoProject THEN [area |-> "none"]
    ELSE IF NonEmpty(text) /\ owner = project
    THEN [area |-> "charter", project |-> project, text |-> text]
    ELSE [area |-> "info", project |-> project]

\* app.py lines 148-153: without a key the right column is a warning and
\* has no button; with one it has the "Generate AI Suggestion" button.
ScoringColumnNoCheck(key) == Idle
ScoringColumn(key) ==
    IF key = NoKey THEN [kind |-> "scoring_disabled"] ELSE Idle

Init ==
    /\ selected \in Projects
    /\ charter_text = EmptyText
    /\ charter_project_id = NoProject
    /\ left = CharterArea(selected, EmptyText, NoProject)
    /\ right = Idle
    /\ OPENAI_API_KEY \in KeyValues
    /\ solo = ScoringColumn(OPENAI_API_KEY)
    /\ openai_calls = 0
    /\ completion = [api |-> "none"]
    /\ calls = 0
    /\ requests = 0
    /\ last = [op |-> "none"]
    /\ generated = {}
    /\ projects = ProjectTable

\* a rerun caused by the project selectbox or the sidebar filters
SelectProject(p) ==
    /\ selected' = p
    /\ left' = CharterArea(p, charter_text, charter_project_id)
    /\ right' = Idle
    /\ UNCHANGED <<charter_text, charter_project_id, calls, requests, last,
                   generated, projects, OPENAI_API_KEY, standalone>>

\* lines 204-241: the right column for an answer of /ai/score_project
SuggestionPanel(link, http) ==
    IF link /= "ok" \/ http.status /= 200 THEN [kind |-> "score_error"]
    ELSE [kind |-> "suggestion", result |-> http.body]

\* "Generate AI Suggestion": link is the frontend's connection to the
\* backend: "ok", "unreachable" (the request never arrives) or "timeout"
\* (the frontend gives up after 60 s, the backend goes on).
GenerateAISuggestion(link, reply) ==
    /\ selected /= NoProject
    /\ Interactions < MaxCalls
    /\ left' = CharterArea(selected, charter_text, charter_project_id)
    /\ IF link = "unreachable"
       THEN /\ right' = [kind |-> "score_error"]
            /\ UNCHANGED <<calls, requests, last, projects>>
       ELSE LET http == ai_score_project(reply)
            IN  /\ calls' = calls + 1
                /\ requests' = requests + http.core.sent
                /\ last' = [op |-> "score", reply |-> reply, http |-> http]
                /\ right' = SuggestionPanel(link, http)
                /\ projects' = TableAfterScoring(projects, selected, reply)
    /\ UNCHANGED <<selected, charter_text, charter_project_id, generated,
                   OPENAI_API_KEY, standalone>>

\* lines 257-266: the handler's effect for an answer of /ai/project_charter
\* [text, owner, right]
\* faulty variant: the answer is stored without the `if charter_md` test
CharterOutcomeStoreAlways(link, http, project, text, owner) ==
    IF link /= "ok" \/ http.status /= 200
    THEN [text |-> text, owner |-> owner, right |-> [kind |-> "charter_error"]]
    ELSE [text |-> http.body.charter_markdown, owner |-> project,
          right |-> [kind |-> "charter_ok", project |-> project,
                     preview |-> http.body.charter_markdown]]
\* faulty variant: a generation that fails forgets the stored charter
CharterOutcomeForgetOnFailure(link, http, project, text, owner) ==
    IF link /= "ok" \/ http.status /= 200
    THEN [text |-> EmptyText, owner |-> NoProject,
          right |-> [kind |-> "charter_error"]]
    ELSE IF NonEmpty(http.body.charter_markdown)
    THEN [text |-> http.body.charter_markdown, owner |-> project,
          right |-> [kind |-> "charter_ok", project |-> project,
                     preview |-> http.body.charter_markdown]]
    ELSE [text |-> text, owner |-> owner, right |-> [kind |-> "charter_warning"]]
CharterOutcome(link, http, project, text, owner) ==
    IF link /= "ok" \/ http.status /= 200
    THEN [text |-> text, owner |-> owner, right |-> [kind |-> "charter_error"]]
    ELSE IF NonEmpty(http.body.charter_markdown)
    THEN [text |-> http.body.charter_markdown, owner |-> project,
          right |-> [kind |-> "charter_ok", project |-> project,
                     preview |-> http.body.charter_markdown]]
    ELSE [text |-> text, owner |-> owner, right |-> [kind |-> "charter_warning"]]

\* "Generate Project Charter"
GenerateProjectCharter(link, reply) ==
    /\ selected /= NoProject
    /\ Interactions < MaxCalls
    /\ left' = CharterArea(selected, charter_text, charter_project_id)
    /\ IF link = "unreachable"
       THEN /\ right' = [kind |-> "charter_error"]
            /\ UNCHANGED <<calls, requests, last, charter_text, charter_project_id,
                           generated>>
       ELSE LET http == ai_project_charter(reply)
                out == CharterOutcome(link, http, selected, charter_text,
                                      charter_project_id)
            IN  /\ calls' = calls + 1
                /\ requests' = requests + http.core.sent
                /\ last' = [op |-> "charter", reply |-> reply, http |-> http]
                /\ charter_text' = out.text
                /\ charter_project_id' = out.owner
                /\ right' = out.right
                /\ generated' =
                      IF http.status = 200
                      THEN generated \cup {<<selected, http.body.charter_markdown>>}
                      ELSE generated
    /\ UNCHANGED <<selected, projects, OPENAI_API_KEY, standalone>>

\* a client of POST /ai/score_project_by_id; an id beyond the table's is
\* one no row has
ScoreProjectById(csv_exists, project_id, reply) ==
    /\ Interactions < MaxCalls
    /\ LET http == ai_score_project_by_id(csv_exists, projects, project_id, reply)
       IN  IF http.core = NoCall
           THEN UNCHANGED <<calls, requests, last, projects>>
           ELSE /\ calls' = calls + 1
                /\ requests' = requests + http.core.sent
                /\ last' = [op |-> "score", reply |-> reply, http |-> http,
                            project_id |-> project_id]
                /\ projects' = TableAfterScoring(projects, project_id, reply)
    /\ UNCHANGED <<selected, charter_text, charter_project_id, left, right,
                   generated, OPENAI_API_KEY, standalone>>

\* "Generate AI Suggestion" of the standalone dashboard, app.py: the
\* button exists only in the column drawn with a key; at most `budget`
\* presses in all.
StandaloneSuggest(answer, budget) ==
    /\ Interactions < budget
    /\ ScoringColumn(OPENAI_API_KEY) = Idle
    /\ solo' = StandaloneSuggestion(answer)
    /\ openai_calls' = openai_calls + 1
    /\ completion' = answer
    /\ UNCHANGED <<selected, charter_text, charter_project_id, left, right,
                   calls, requests, last, generated, projects, OPENAI_API_KEY>>

Links == {"ok", "unreachable", "timeout"}

Next ==
    \/ \E p \in Projects \cup {NoProject} : SelectProject(p)
    \/ \E link \in Links, reply \in SessionScoreReplies :
          GenerateAISuggestion(link, reply)
    \/ \E link \in Links, reply \in CharterReplies :
          GenerateProjectCharter(link, reply)
    \/ \E csv_exists \in BOOLEAN, project_id \in 1..(NumProjects + 1),
          reply \in ByIdReplies :
          ScoreProjectById(csv_exists, project_id, reply)
    \/ \E answer \in SessionCompletions : StandaloneSuggest(answer, MaxCalls)

Spec == Init /\ [][Next]_vars

(***************************************************************************)
(* The scoring functions on their own: one call, any answer.               *)
(***************************************************************************)
\* a client of POST /ai/score_project
ScoreProject(reply) ==
    /\ Interactions = 0
    /\ LET http == ai_score_project(reply)
       IN  /\ calls' = calls + 1
           /\ requests' = requests + http.core.sent
           /\ last' = [op |-> "score", reply |-> reply, http |-> http]
    /\ UNCHANGED <<selected, charter_text, charter_project_id, left, right,
                   generated, projects, OPENAI_API_KEY, standalone>>

NextScore ==
    \/ \E reply \in AllScoreReplies : ScoreProject(reply)
    \/ \E answer \in AllCompletions : StandaloneSuggest(answer, 1)

SpecScore == Init /\ [][NextScore]_vars

(***************************************************************************)
(* Properties.  What an answer of the provider was, read off the answer    *)
(* itself.                                                                 *)
(***************************************************************************)
Scored == last.op = "score"
Chartered == last.op = "charter"
Core == last.http.core

ConnectionFailed(reply) == reply.net \in {"ConnectionError", "Timeout"}
StatusFailed(reply) == reply.net = "ok" /\ reply.status >= 400
HasContent(reply) ==
    /\ reply.net = "ok" /\ reply.status < 400
    /\ reply.body.b = "json" /\ reply.body.data.d = "dict"
    /\ reply.body.data.message.m = "dict"
ContentOf(reply) == reply.body.data.message.content
\* the content decodes to a mapping
IsMapping(content) ==
    \/ content.c = "dict"
    \/ content.c = "str" /\ content.text.form = "json"
                         /\ content.text.val.j = "object"
MappingOf(content) ==
    IF content.c = "dict" THEN content.map ELSE content.text.val.map
DecodesToMapping(reply) == HasContent(reply) /\ IsMapping(ContentOf(reply))
\* the provider answered, and not with a mapping
NoMapping(reply) ==
    /\ reply.net = "ok" /\ reply.status < 400
    /\ ~DecodesToMapping(reply)
ReturnsText(reply, text) == HasContent(reply) /\ ContentOf(reply) = StrContent(text)

Formula(r) ==
    r.priority_score
        = r.bi + r.risk + r.align + r.urgency + (6 - r.complexity) + (6 - r.cost)

\* C1: every ScoreResult, of score_project_ai, of /ai/score_project and of
\* the standalone dashboard, has priority_score = bi + risk + align +
\* urgency + (6 - complexity) + (6 - cost) over its own six sub-scores,
\* whatever integers they are.
C1_PriorityIsTheFormula ==
    /\ (Scored /\ Core.kind = "result") => Formula(Core.result)
    /\ (Scored /\ last.http.status = 200) =>
          /\ Formula(last.http.body)
          /\ \A k \in SubScores \cup {"priority_score"} :
                last.http.body[k] = Core.result[k]
    /\ solo.kind = "suggestion" => Formula(solo)

\* a ScoreResult with a negative, a zero and an above-5 sub-score
C1_Witness ==
    /\ Scored /\ last.http.status = 200
    /\ last.http.body.bi < 0 /\ last.http.body.risk = 0
    /\ last.http.body.cost > 5 /\ last.http.body.complexity > 5
    /\ last.http.body.priority_score < 0

\* values of a sub-score key for which the claim promises 0
IsIntegerText(v) == v.t = "str" /\ ParseIntText(v.s).ok
NotAnInteger(v) == v.t /= "int" /\ ~IsIntegerText(v)
\* values int() cannot convert
Unconvertible(v) ==
    \/ v.t \in {"absent", "null", "list", "dict", "nan"}
    \/ v.t = "str" /\ ~IsIntegerText(v)

\* C2 as stated: when the response decodes to a mapping the call returns a
\* ScoreResult, in which every sub-score that was absent, null, non-numeric
\* text or of any type other than an integer is 0.
C2_AsStated ==
    (Scored /\ DecodesToMapping(last.reply)) =>
        /\ Core.kind = "result"
        /\ \A k \in SubScores :
              NotAnInteger(MappingOf(ContentOf(last.reply))[k])
                  => Core.result[k] = 0

\* C2 amended: when the response decodes to a mapping the call returns a
\* ScoreResult, in which every sub-score that was absent, null, text that
\* is no integer literal, a list, a mapping or NaN is 0; a boolean becomes
\* 0 or 1 and a float is truncated toward zero.  {bi:1, risk:1, align:1,
\* urgency:1, complexity:1} gives cost = 0 and priorityScore = 15.
C2_DefaultsToZero ==
    (Scored /\ DecodesToMapping(last.reply)) =>
        LET raw == MappingOf(ContentOf(last.reply))
        IN  /\ Core.kind = "result"
            /\ \A k \in SubScores :
                  /\ Unconvertible(raw[k]) => Core.result[k] = 0
                  /\ raw[k].t = "int" => Core.result[k] = raw[k].n
                  /\ raw[k] = BoolV(TRUE) => Core.result[k] = 1
                  /\ raw[k] = BoolV(FALSE) => Core.result[k] = 0
                  /\ raw[k] = FloatV(29) => Core.result[k] = 2
                  /\ raw[k] = FloatV(-29) => Core.result[k] = 0 - 2
            /\ raw = OnesNoCost =>
                  /\ Core.result.cost = 0
                  /\ Core.result.priority_score = 15
                  /\ last.http.status = 200

\* a sub-score given as non-numeric text, in a call that returned a result
C2_Witness ==
    /\ Scored /\ DecodesToMapping(last.reply)
    /\ MappingOf(ContentOf(last.reply))["bi"] = StrV(<<"h", "i", "g", "h">>)
    /\ Core.kind = "result" /\ Core.result.bi = 0

\* the exceptions a response that is no mapping ends in
MalformedResponse == {"JSONDecodeError", "TypeError", "AttributeError"}

\* C3: a response that does not decode to a mapping (prose, empty content,
\* a JSON value that is no object, a content that is neither text nor a
\* mapping, a body without a message) ends in a malformed-response error:
\* no ScoreResult, no default scores, HTTP 500 from the endpoint.
C3_MalformedIsAnError ==
    (Scored /\ NoMapping(last.reply)) =>
        /\ Core.kind = "error"
        /\ Core.error.exc \in MalformedResponse
        /\ last.http.status = 500

\* plain prose where a JSON object was asked for
C3_Witness ==
    /\ Scored
    /\ ReturnsText(last.reply, Plain("The project looks important."))
    /\ Core.kind = "error" /\ Core.error.exc = "JSONDecodeError"

\* the exception classes connection failures end in
UnreachableKinds ==
    {_call_ollama(NetFailure(k)).error.exc : k \in {"ConnectionError", "Timeout"}}

\* C4 as stated: a non-success status ends in an error of a kind distinct
\* from the kind a connection error or timeout ends in.
C4_AsStated ==
    ((Scored \/ Chartered) /\ StatusFailed(last.reply)) =>
        /\ Core.kind = "error"
        /\ Core.error.exc \notin UnreachableKinds

\* C4 amended: a connection error, a timeout and a 4xx/5xx status all end
\* in the same kind of error, RuntimeError, which carries the endpoint and
\* the underlying cause (the cause tells them apart); no ScoreResult or
\* CharterResult is produced.
C4_ProviderFailureIsOneError ==
    ((Scored \/ Chartered)
        /\ (ConnectionFailed(last.reply) \/ StatusFailed(last.reply))) =>
        /\ Core.kind = "error"
        /\ Core.error.exc = "RuntimeError"
        /\ Core.error.endpoint = OLLAMA_URL
        /\ Core.error.cause =
              IF ConnectionFailed(last.reply)
              THEN [exc |-> last.reply.net, status |-> 0]
              ELSE [exc |-> "HTTPError", status |-> last.reply.status]
        /\ last.http.status = 500

\* a charter call answered with status 500
C4_Witness ==
    /\ Chartered /\ last.reply.status = 500
    /\ Core.kind = "error" /\ Core.error.cause.exc = "HTTPError"

\* C5: every call sends exactly one request to the provider, failed or not,
\* so after n calls n requests have been sent.
C5_OneRequestPerCall ==
    /\ requests = calls
    /\ (Scored \/ Chartered) => Core.sent = 1

\* two calls made, the last one failed, two requests sent
C5_Witness ==
    /\ calls >= 2 /\ requests = calls
    /\ Chartered /\ Core.kind = "error" /\ ConnectionFailed(last.reply)

\* C6: the left column shows a charter only for the selected project, only
\* when that project is the stored charter's owner, and only a text the
\* backend returned for that very project.
C6_CharterShownForItsProject ==
    /\ left.area = "charter" =>
          /\ left.project = selected
          /\ charter_project_id = selected
          /\ <<selected, left.text>> \in generated
    /\ right.kind = "charter_ok" =>
          /\ right.project = selected
          /\ <<selected, right.preview>> \in generated

\* a charter on show while another project has had a charter generated too
C6_Witness ==
    /\ left.area = "charter"
    /\ \E pair \in generated : pair[1] /= selected /\ pair[2] /= left.text

\* C7: a non-empty text the provider returns for a charter request is what
\* generate_project_charter_ai returns and what /ai/project_charter
\* answers, and a charter the frontend reports is that answer, previewed
\* and stored under the selected project unchanged.
C7_CharterIsTheProvidersText ==
    /\ \A text \in CharterTexts \ {EmptyText} :
          (Chartered /\ ReturnsText(last.reply, text)) =>
              /\ Core.kind = "result" /\ Core.charter = text
              /\ last.http.status = 200
              /\ last.http.body.charter_markdown = text
    /\ right.kind = "charter_ok" =>
          /\ charter_text = right.preview
          /\ charter_project_id = selected
    \* until another client's request is the backend's last one
    /\ (right.kind = "charter_ok" /\ Chartered) =>
          /\ last.http.status = 200
          /\ right.preview = last.http.body.charter_markdown

\* a text with leading and trailing white space, stored as it came
C7_Witness ==
    /\ right.kind = "charter_ok"
    /\ ReturnsText(last.reply, Plain(" # B\n"))
    /\ charter_text = Plain(" # B\n")

\* C8: an empty text from the provider is not a charter: the frontend
\* answers with the "no content" warning (or an error when the backend
\* did not answer in time), leaves the stored charter as it was, and an
\* empty text is never stored or shown.
C8_EmptyIsNoCharter ==
    /\ [](/\ (Chartered /\ ReturnsText(last.reply, EmptyText))
                => right.kind /= "charter_ok"
          /\ charter_project_id /= NoProject => NonEmpty(charter_text)
          /\ left.area = "charter" => NonEmpty(left.text)
          /\ (right.kind = "charter_warning" /\ Chartered) =>
                /\ last.http.status = 200
                /\ ~NonEmpty(last.http.body.charter_markdown))
    /\ [][(calls' = calls + 1 /\ last'.op = "charter"
              /\ ReturnsText(last'.reply, EmptyText))
            => /\ right'.kind \in {"charter_warning", "charter_error"}
               /\ charter_text' = charter_text
               /\ charter_project_id' = charter_project_id]_vars

\* the warning, with an earlier charter still stored
C8_Witness ==
    /\ right.kind = "charter_warning"
    /\ ReturnsText(last.reply, EmptyText)
    /\ charter_project_id = selected /\ NonEmpty(charter_text)

\* C9: in a ScoreResult a rationale that was not text is the empty string
\* and lenses that were not a list are the empty list, so rationale is
\* always text and lenses always a list.
C9_AsStated ==
    (Scored /\ DecodesToMapping(last.reply) /\ Core.kind = "result") =>
        LET raw == MappingOf(ContentOf(last.reply))
        IN  /\ raw["rationale"].t /= "str" => Core.result.rationale = StrV(<<>>)
            /\ raw["lenses"].t /= "list" => Core.result.lenses = ListV(<<>>)
            /\ Core.result.rationale.t = "str"
            /\ Core.result.lenses.t = "list"

\* C10: a mapping without rationale, lenses or recommended_priority gives
\* "", [] and 1; a recommended_priority it has is returned as it is,
\* however small or large, by score_project_ai and, an integer, by the
\* endpoint.
C10_DefaultsAndPriorityAsGiven ==
    (Scored /\ DecodesToMapping(last.reply)) =>
        LET raw == MappingOf(ContentOf(last.reply))
        IN  /\ Core.kind = "result"
            /\ raw["rationale"] = Absent => Core.result.rationale = StrV(<<>>)
            /\ raw["lenses"] = Absent => Core.result.lenses = ListV(<<>>)
            /\ raw["recommended_priority"] = Absent
                  => Core.result.recommended_priority = IntV(1)
            /\ raw["recommended_priority"] /= Absent
                  => Core.result.recommended_priority = raw["recommended_priority"]
            /\ (raw["recommended_priority"].t = "int" /\ last.http.status = 200)
                  => last.http.body.recommended_priority = raw["recommended_priority"]

\* a recommended priority far above 5, returned by the endpoint
C10_Witness ==
    /\ Scored /\ last.http.status = 200
    /\ last.http.body.recommended_priority = IntV(10 * MaxScore)
    /\ MappingOf(ContentOf(last.reply))["rationale"] = Absent
    /\ last.http.body.rationale = StrV(<<>>)

\* C11: whatever scoring requests (from the dashboard or by project id)
\* and charter requests were made, failed or not, projects.csv holds what
\* it held: no suggested score is written to a project's row.
C11_TableUnchanged == projects = ProjectTable

\* a project scored by id after a charter was generated, the suggestion's
\* priority differing from the stored one
C11_Witness ==
    /\ Scored /\ "project_id" \in DOMAIN last
    /\ last.http.status = 200
    /\ last.http.body.priority_score /= projects[last.project_id].priority_score
    /\ generated /= {}

\* C12: without OPENAI_API_KEY the standalone dashboard shows the
\* "scoring disabled" notice and nothing else: no suggestion can be asked
\* for, no completion is requested, and no request ends in an error.
C12_NoKeyDisablesScoring ==
    OPENAI_API_KEY = NoKey =>
        /\ solo = [kind |-> "scoring_disabled"]
        /\ openai_calls = 0
        /\ completion = [api |-> "none"]

\* no key, the notice on show, while the backend has served its calls
C12_Witness ==
    /\ OPENAI_API_KEY = NoKey
    /\ solo.kind = "scoring_disabled"
    /\ calls = MaxCalls

\* C13: the stored charter text and the stored charter project id are
\* written only together, and only by a charter generation that the
\* frontend got a non-empty text from: that step stores the text under
\* the selected project; every other step (a generation that fails or
\* returns an empty text, a scoring request, a change of the selected
\* project) leaves both as they were. So whenever the page is drawn for
\* the project that owns the stored charter, that charter is on show.
C13_CharterStoredOnlyOnSuccess ==
    /\ [][<<charter_text, charter_project_id>>' /=
              <<charter_text, charter_project_id>>
            => /\ calls' = calls + 1 /\ selected' = selected
               /\ last'.op = "charter" /\ last'.http.status = 200
               /\ NonEmpty(last'.http.body.charter_markdown)
               /\ right'.kind = "charter_ok"
               /\ charter_text' = last'.http.body.charter_markdown
               /\ charter_project_id' = selected]_vars
    /\ []((/\ charter_project_id = selected /\ NonEmpty(charter_text)
           /\ right.kind /= "charter_ok")
            => left = [area |-> "charter", project |-> selected,
                       text |-> charter_text])

\* a generation the backend answered with an error, the charter stored
\* before it still on show for its project
C13_Witness ==
    /\ right.kind = "charter_error"
    /\ Chartered /\ last.http.status /= 200
    /\ charter_project_id = selected /\ NonEmpty(charter_text)
    /\ left = [area |-> "charter", project |-> selected, text |-> charter_text]

\* C14: for every answer that decodes to a mapping, the standalone
\* dashboard and the backend's score_project_ai given the same content
\* end alike: a suggestion exactly when the backend returns a result, and
\* then with the same six sub-scores and the same priority score.
C14_AsStated ==
    (completion.api = "ok" /\ IsMapping(completion.content)) =>
        LET backend == score_project_ai(ContentReply(completion.content))
        IN  /\ (solo.kind = "suggestion") = (backend.kind = "result")
            /\ solo.kind = "suggestion" =>
                  \A k \in SubScores \cup {"priority_score"} :
                      solo[k] = backend.result[k]

====
